---- MODULE Spec2Model ----
(***************************************************************************)
(* Model of the mail-triggered image harvesting scripts:                   *)
(*   src/ail_scrape_send.py   asyncio variant (robots gate, gather, zip    *)
(*                            of the directory listing)                    *)
(*   src/mail_scrape_send.py  sequential variant (requests, no robots      *)
(*                            gate, zip of the saved list)                 *)
(* One run of main() is modelled: the unseen messages are processed in     *)
(* order; for each one the page is fetched, image references extracted,    *)
(* the candidates downloaded, the survivors zipped and the reply sent.     *)
(***************************************************************************)
EXTENDS Integers, Sequences, FiniteSets, TLC

\* ---------------------------------------------------------------- bounds
\* Number of unseen messages fetch_unseen() may return.
MaxMsgs == 2
\* Number of distinct image references a page may yield.
MaxCands == 3

\* ------------------------------------------------------ program constants
MIN_BYTES == 1024
\* MAX_IMAGES is 200 (asyncio variant) and 30 (sequential variant); scaled
\* down so that a page can exceed it.
MAX_IMAGES == 2
\* h[:10] of a 40 digit hexdigest, scaled to 2 of 3 digits.
PathPrefixLen == 2
\* h[:8] of the fallback name img_<h[:8]>, scaled to 1 of 3 digits.
FallbackPrefixLen == 1

\* ------------------------------------------------------------------ data
\* A URL: its origin, the last segment of its path (a string, as a sequence
\* of characters) and its query string.
PageUrl == [host |-> "h1", name |-> <<"p">>, q |-> 0]

Urls ==
  { [host |-> "h1", name |-> <<"a">>, q |-> 0],
    [host |-> "h1", name |-> <<"a">>, q |-> 1],
    [host |-> "h2", name |-> <<>>,    q |-> 0],
    [host |-> "h2", name |-> <<"~">>, q |-> 0] }

\* A response body: its length in bytes and an identifier of its bytes
\* (two bodies are byte-identical iff they are the same record).
Bodies ==
  { [len |-> MIN_BYTES - 1, id |-> 3],
    [len |-> MIN_BYTES,     id |-> 0],
    [len |-> MIN_BYTES + 1, id |-> 1],
    [len |-> MIN_BYTES + 1, id |-> 2] }

NoBody == [len |-> -1, id |-> -1]

\* What is left of a file whose write failed after the file was opened.
Partial(b) == [len |-> 0, id |-> b.id]

\* A path is a non-empty string; None is modelled by the empty string.
None == <<>>

\* Sequences over S of length at most n without repetition: the list made
\* of a set of URLs, in the arbitrary order of set iteration.
ListsOfSet(S, n) ==
  { s \in UNION { [1..k -> S] : k \in 0..n } :
      \A i, j \in DOMAIN s : i # j => s[i] # s[j] }

\* --------------------------------------------------------- pure functions
Bit(n) == IF n = 0 THEN "0" ELSE "1"

\* hashlib.sha1(data).hexdigest(): a fixed-length digest of the bytes,
\* injective on the bodies of the model (3 digits instead of 40).
Sha1Hex(b) == << Bit(b.id \div 4), Bit((b.id \div 2) % 2), Bit(b.id % 2) >>

\* h[:n]
Take(h, n) == SubSeq(h, 1, IF n < Len(h) THEN n ELSE Len(h))

SafeChars == {"a", "p", "i", "m", "g", "_", ".", "-", "0", "1"}

\* re.sub(r'[^a-zA-Z0-9_.-]', '_', name)
Sanitize(name) ==
  [i \in 1..Len(name) |-> IF name[i] \in SafeChars THEN name[i] ELSE "_"]

\* Path(urlparse(url).path).name or f"img_{h[:8]}"
SuggestedName(url, h) ==
  IF url.name # <<>> THEN url.name
  ELSE <<"i", "m", "g", "_">> \o Take(h, FallbackPrefixLen)

\* out_dir / f"{h[:10]}_{safe}"
AssetPath(url, h) ==
  Take(h, PathPrefixLen) \o <<"_">> \o Sanitize(SuggestedName(url, h))

\* A floor that also rejects a body of exactly MIN_BYTES bytes.
BelowFloor_inclusive(data) == data.len <= MIN_BYTES

\* len(data) < MIN_BYTES
BelowFloor(data) == data.len < MIN_BYTES

\* Outcomes of retrieving <origin>/robots.txt with urllib.
RobotsOutcomes ==
  {"neterror", "http403", "http404", "http500", "undecodable", "allow", "disallow"}

\* RobotFileParser.read(): HTTPError 401/403 sets disallow_all, another 4xx
\* sets allow_all, any other HTTPError sets nothing; a URLError, a timeout
\* or a body that is not UTF-8 raises; a body that is read is parsed.
RobotsRead(o) ==
  [ raised        |-> o \in {"neterror", "undecodable"},
    disallow_all  |-> o = "http403",
    allow_all     |-> o = "http404",
    last_checked  |-> o \in {"allow", "disallow"},
    rules_allow   |-> o # "disallow" ]

\* RobotFileParser.can_fetch(USER_AGENT, url)
CanFetch(rp) ==
  IF rp.disallow_all THEN FALSE
  ELSE IF rp.allow_all THEN TRUE
  ELSE IF ~rp.last_checked THEN FALSE
  ELSE rp.rules_allow

\* robots_allow(url): try: rp.read(); return rp.can_fetch(...) except: True
robots_allow(o) ==
  LET rp == RobotsRead(o) IN IF rp.raised THEN TRUE ELSE CanFetch(rp)

\* ----------------------------------------------------------------- state
VARIABLES
  variant,   \* "ail": src/ail_scrape_send.py, "mail": src/mail_scrape_send.py
  msgIdx,    \* position of main()'s loop over msgs
  marked,    \* per message, how many times mark_seen() stored \Seen
  pc,        \* position of main() / scrape_images() for the current message
  tmp,       \* TRUE while the TemporaryDirectory of the message exists
  page,      \* what happened to the page URL: robots verdict, fetch
  img_urls,  \* list(extract_image_urls(url, html))
  tasks,     \* one record per download: download_one() / loop iteration
  seen,      \* the set of digests of the session
  files,     \* content of out_dir: a set of [name, data]
  saved,     \* the list of paths the downloads returned
  archive,   \* arcnames written to images.zip, in order
  result,    \* "pending", "None", "zip", or "raised"
  delivered, \* per message, whether a reply with the zip was sent
  gateLog    \* the call of robots_allow made by the last step, if any

vars ==
  << variant, msgIdx, marked, pc, tmp, page, img_urls, tasks, seen,
     files, saved, archive, result, delivered, gateLog >>

NoPage == [gate |-> "none", fetch |-> "none", requests |-> 0]

\* session.get / requests.get for the page URL: one more request is sent.
Retrieve(p) == [p EXCEPT !.fetch = "issued", !.requests = @ + 1]

\* A page fetch that answers a failure with another request.
Failed_retry(p, r) == Retrieve(p)

\* fetch_text / fetch_html after a response that gives no text: None is
\* returned, nothing is requested again.
Failed(p, r) == [p EXCEPT !.fetch = IF r = "empty" THEN "empty" ELSE "failed"]

NoGate == [url |-> PageUrl, outcome |-> "none", verdict |-> TRUE]

NewTask(u) ==
  [url |-> u, pc |-> "idle", gate |-> "none", status |-> "none",
   body |-> NoBody, out |-> None, why |-> "none"]

Init ==
  /\ variant \in {"ail", "mail"}
  /\ msgIdx = 1
  /\ marked = [m \in 1..MaxMsgs |-> 0]
  /\ pc = "next"
  /\ tmp = FALSE
  /\ page = NoPage
  /\ img_urls = <<>>
  /\ tasks = <<>>
  /\ seen = {}
  /\ files = {}
  /\ saved = <<>>
  /\ archive = <<>>
  /\ result = "pending"
  /\ delivered = [m \in 1..MaxMsgs |-> FALSE]
  /\ gateLog = NoGate

\* The per-message state, as it is when the loop body starts.
ResetSession ==
  /\ page' = NoPage
  /\ img_urls' = <<>>
  /\ tasks' = <<>>
  /\ seen' = {}
  /\ files' = {}
  /\ saved' = <<>>
  /\ archive' = <<>>
  /\ result' = "pending"
  /\ gateLog' = NoGate

\* A with block that leaves the directory behind.
WithExit_leak(exists) == exists

\* TemporaryDirectory.__exit__: the directory and all below it are removed.
WithExit(exists) == FALSE

\* A with block that ends once the archive is returned, before the send.
InsideWith_left(exists) == WithExit(exists)

\* The statements after the archive is built (the test of the result and
\* the send) are inside the with block: the directory is as it was.
InsideWith(exists) == exists

\* An exception leaves main(): the with block (if entered) is unwound and
\* the process ends; nothing after the raise runs.
Raise ==
  /\ result' = "raised"
  /\ pc' = "crashed"
  /\ tmp' = WithExit(tmp)
  /\ files' = IF WithExit(tmp) THEN files ELSE {}

\* ------------------------------------------------------------- main loop
\* main(): the loop head, when msgs holds another message (fetch_unseen
\* returns at most MaxMsgs of them). A message without a URL (or, in the sequential
\* variant, without a sender) is marked seen and skipped. Otherwise the
\* asyncio variant enters the with block and calls scrape_images; the
\* sequential variant calls fetch_html first.
NextMessage ==
  /\ pc = "next"
  /\ msgIdx <= MaxMsgs
  /\ \E hasUrl \in BOOLEAN :
       IF ~hasUrl
       THEN /\ marked' = [marked EXCEPT ![msgIdx] = @ + 1]
            /\ msgIdx' = msgIdx + 1
            /\ UNCHANGED << pc, tmp, page >>
       ELSE /\ pc' = IF variant = "ail" THEN "gate" ELSE "page"
            /\ tmp' = (variant = "ail")
            /\ page' = IF variant = "ail" THEN page ELSE Retrieve(page)
            /\ UNCHANGED << marked, msgIdx >>
  /\ UNCHANGED << variant, img_urls, tasks, seen, files, saved,
                  archive, result, delivered, gateLog >>

\* main(): msgs holds no further message: the loop is over; M.logout().
Logout ==
  /\ pc = "next"
  /\ pc' = "exit"
  /\ UNCHANGED << variant, msgIdx, marked, tmp, page, img_urls, tasks,
                  seen, files, saved, archive, result, delivered, gateLog >>

\* scrape_images, up to its first await: the robots gate on the page, the
\* images directory is made, then fetch_text issues the request.
ScrapeStart ==
  /\ pc = "gate"
  /\ \E o \in RobotsOutcomes :
       /\ gateLog' = [url |-> PageUrl, outcome |-> o, verdict |-> robots_allow(o)]
       /\ IF ~robots_allow(o)
          THEN /\ page' = [page EXCEPT !.gate = "deny"]
               /\ result' = "None"
               /\ pc' = "done"
          ELSE /\ page' = Retrieve([page EXCEPT !.gate = "allow"])
               /\ pc' = "page"
               /\ UNCHANGED result
  /\ UNCHANGED << tmp, files >>
  /\ UNCHANGED << variant, msgIdx, marked, img_urls, tasks, seen,
                  saved, archive, delivered >>

\* fetch_text / fetch_html: the single response to the page request. A
\* network error, a timeout or a status other than 200 gives None; so does
\* an empty text (`if not html`).
PageResponses == {"error", "status", "empty", "ok"}

FetchPage ==
  /\ pc = "page"
  /\ \E r \in PageResponses :
       IF r = "ok"
       THEN /\ page' = [page EXCEPT !.fetch = "ok"]
            /\ pc' = "extract"
            /\ UNCHANGED result
       ELSE /\ page' = Failed(page, r)
            /\ result' = "None"
            /\ pc' = "done"
  /\ UNCHANGED << variant, msgIdx, marked, tmp, img_urls, tasks, seen,
                  files, saved, archive, delivered >>
  /\ gateLog' = NoGate

\* img_urls[:MAX_IMAGES]
Truncate(l) == SubSeq(l, 1, IF Len(l) < MAX_IMAGES THEN Len(l) ELSE MAX_IMAGES)

\* The downloads that are set up for a list of candidates: the asyncio
\* variant creates a coroutine for each of img_urls[:MAX_IMAGES]; the
\* sequential variant hands the whole list to download_images.
Dispatch(l) ==
  LET d == IF variant = "ail" THEN Truncate(l) ELSE l
  IN  [i \in 1..Len(d) |-> NewTask(d[i])]

\* extract_image_urls and what follows it without suspension. urljoin
\* raises ValueError on a reference such as "//[" and nothing catches it.
\* The sequential variant skips the message when the list is empty, and
\* otherwise enters the with block and makes outdir.
Extract ==
  /\ pc = "extract"
  /\ \/ /\ Raise
        /\ UNCHANGED << img_urls, tasks >>
     \/ \E l \in ListsOfSet(Urls, MaxCands) :
          IF variant = "mail" /\ l = <<>>
          THEN /\ img_urls' = l
               /\ result' = "None"
               /\ pc' = "done"
               /\ UNCHANGED << tasks, tmp, files >>
          ELSE /\ img_urls' = l
               /\ tasks' = Dispatch(l)
               /\ pc' = "batch"
               /\ tmp' = TRUE
               /\ UNCHANGED << result, files >>
  /\ UNCHANGED << variant, msgIdx, marked, page, seen, saved, archive,
                  delivered >>
  /\ gateLog' = NoGate

\* ------------------------------------------------------------- downloads
Tasks == DOMAIN tasks

Upd(c, r) == [tasks EXCEPT ![c] = r]

\* The response to a request: an error (network error, timeout, invalid
\* URL: caught, None / continue), a status other than 200, or 200.
FailedStatuses == {"error", "404"}

Skipped(t, st) ==
  [t EXCEPT !.pc = "done", !.status = st,
            !.why = IF st = "error" THEN "error" ELSE "status"]

\* Path.write_bytes: the file is written; or open() raises and there is no
\* file; or write() raises after open() truncated or created the file.
WriteOutcomes == {"ok", "nofile", "partial"}

WriteBytes(fs, path, data, w) ==
  IF w = "nofile" THEN fs
  ELSE { f \in fs : f.name # path }
         \cup { [name |-> path, data |-> IF w = "ok" THEN data ELSE Partial(data)] }

\* `h in seen`
AlreadySeen(h, s) == h \in s

\* Whether write_bytes is reached for a body.
Writes(data) == ~BelowFloor(data) /\ ~AlreadySeen(Sha1Hex(data), seen)

\* What both variants do with a body that has been read, without
\* suspension: size floor, digest, dedup check, seen.add, name,
\* write_bytes; the path is returned (appended to saved). An exception
\* anywhere gives None (continue). t is the record of download c, w the
\* outcome of the write if there is one.
Process(c, t, data, w) ==
  LET h    == Sha1Hex(data)
      path == AssetPath(t.url, h)
  IN
  IF BelowFloor(data)
  THEN /\ tasks' = Upd(c, [t EXCEPT !.pc = "done", !.body = data, !.why = "small"])
       /\ UNCHANGED << seen, files, saved >>
  ELSE IF AlreadySeen(h, seen)
  THEN /\ tasks' = Upd(c, [t EXCEPT !.pc = "done", !.body = data, !.why = "dup"])
       /\ UNCHANGED << seen, files, saved >>
  ELSE /\ seen' = seen \cup {h}
       /\ files' = WriteBytes(files, path, data, w)
       /\ IF w = "ok"
          THEN /\ tasks' = Upd(c, [t EXCEPT !.pc = "done", !.body = data,
                                     !.out = path, !.why = "saved"])
               /\ saved' = IF variant = "mail" THEN Append(saved, path) ELSE saved
          ELSE /\ tasks' = Upd(c, [t EXCEPT !.pc = "done", !.body = data,
                                     !.why = "write"])
               /\ UNCHANGED saved

\* aiohttp.TCPConnector(limit_per_host=6): at most limit connections at a
\* time (the default of the library, 100, as none is given) and at most
\* limit_per_host to one host; scaled to 2 and 1.
ConnLimit == 2
LimitPerHost == 1

\* A download holds a connection from the moment the connector hands it
\* one (the request is sent) until the `async with session.get` block is
\* left.
Connected(t) == t.pc \in {"get", "read"}

\* A connector without limits.
Available_unbounded(host) == TRUE

\* TCPConnector._available_connections(key) > 0
Available(host) ==
  /\ Cardinality({ d \in Tasks : Connected(tasks[d]) }) < ConnLimit
  /\ Cardinality({ d \in Tasks : Connected(tasks[d])
                                   /\ tasks[d].url.host = host }) < LimitPerHost

\* download_one from its start to its first await: the robots gate, then
\* session.get asks the connector for a connection: the request is sent if
\* one is available, the coroutine waits for one otherwise. gather starts
\* the coroutines in list order.
DownloadBegin(c) ==
  /\ pc = "batch"
  /\ variant = "ail"
  /\ tasks[c].pc = "idle"
  /\ \A d \in Tasks : d < c => tasks[d].pc # "idle"
  /\ \E o \in RobotsOutcomes :
       /\ gateLog' = [url |-> tasks[c].url, outcome |-> o,
                      verdict |-> robots_allow(o)]
       /\ tasks' =
            IF robots_allow(o)
            THEN Upd(c, [tasks[c] EXCEPT
                           !.pc = IF Available(tasks[c].url.host)
                                  THEN "get" ELSE "wait",
                           !.gate = "allow"])
            ELSE Upd(c, [tasks[c] EXCEPT !.pc = "done", !.gate = "deny",
                                         !.why = "blocked"])
  /\ UNCHANGED << variant, msgIdx, marked, pc, tmp, page, img_urls,
                  seen, files, saved, archive, result, delivered >>

\* download_one, waiting in session.get for a connection: the connector
\* hands it one that was released and the request is sent; or the timeout
\* expires first, which `except` turns into None.
DownloadConnect(c) ==
  /\ pc = "batch"
  /\ tasks[c].pc = "wait"
  /\ \A d \in Tasks : tasks[d].pc # "idle"
  /\ \/ /\ Available(tasks[c].url.host)
        /\ tasks' = Upd(c, [tasks[c] EXCEPT !.pc = "get"])
     \/ tasks' = Upd(c, [tasks[c] EXCEPT !.pc = "done", !.why = "error"])
  /\ UNCHANGED << variant, msgIdx, marked, pc, tmp, page, img_urls,
                  seen, files, saved, archive, result, delivered >>
  /\ gateLog' = NoGate

\* download_one: the response to session.get arrives. The event loop
\* handles a response only once every coroutine gather started has run to
\* its first await (robots_allow blocks the loop).
DownloadStatus(c) ==
  /\ pc = "batch"
  /\ tasks[c].pc = "get"
  /\ \A d \in Tasks : tasks[d].pc # "idle"
  /\ \/ \E st \in FailedStatuses : tasks' = Upd(c, Skipped(tasks[c], st))
     \/ tasks' = Upd(c, [tasks[c] EXCEPT !.pc = "read", !.status = "200"])
  /\ UNCHANGED << variant, msgIdx, marked, pc, tmp, page, img_urls,
                  seen, files, saved, archive, result, delivered >>
  /\ gateLog' = NoGate

\* download_one: r.read() returns the body, or raises (connection lost,
\* timeout); the rest of the coroutine runs without suspension.
DownloadBody(c) ==
  /\ pc = "batch"
  /\ tasks[c].pc = "read"
  /\ \/ /\ tasks' = Upd(c, [tasks[c] EXCEPT !.pc = "done", !.why = "error"])
        /\ UNCHANGED << seen, files, saved >>
     \/ \E data \in Bodies :
          \E w \in IF Writes(data) THEN WriteOutcomes ELSE {"ok"} :
            Process(c, tasks[c], data, w)
  /\ UNCHANGED << variant, msgIdx, marked, pc, tmp, page, img_urls,
                  archive, result, delivered >>
  /\ gateLog' = NoGate

\* download_images: one iteration of `for u in urls`, a blocking sequence.
\* It starts when the one before it is over and `len(saved) >= max_images`
\* does not break the loop; it has no robots gate: requests.get is issued
\* at once and returns the whole response.
DownloadIteration(c) ==
  /\ pc = "batch"
  /\ variant = "mail"
  /\ tasks[c].pc = "idle"
  /\ \A d \in Tasks : d < c => tasks[d].pc = "done"
  /\ Len(saved) < MAX_IMAGES
  /\ \/ /\ \E st \in FailedStatuses : tasks' = Upd(c, Skipped(tasks[c], st))
        /\ UNCHANGED << seen, files, saved >>
     \/ \E data \in Bodies :
          \E w \in IF Writes(data) THEN WriteOutcomes ELSE {"ok"} :
            Process(c, [tasks[c] EXCEPT !.status = "200"], data, w)
  /\ UNCHANGED << variant, msgIdx, marked, pc, tmp, page, img_urls,
                  archive, result, delivered >>
  /\ gateLog' = NoGate

\* [r for r in res if r]
NonNone(res) == SelectSeq(res, LAMBDA r : r # None)

\* ------------------------------------------------------------- packaging
\* Code points of the characters that occur in file names.
Ord(ch) ==
  CASE ch = "-" -> 45 [] ch = "." -> 46 [] ch = "0" -> 48 [] ch = "1" -> 49
    [] ch = "_" -> 95 [] ch = "a" -> 97 [] ch = "g" -> 103 [] ch = "i" -> 105
    [] ch = "m" -> 109 [] ch = "p" -> 112

\* a < b for strings
RECURSIVE StrLess(_, _)
StrLess(a, b) ==
  IF b = <<>> THEN FALSE
  ELSE IF a = <<>> THEN TRUE
  ELSE IF Head(a) # Head(b) THEN Ord(Head(a)) < Ord(Head(b))
  ELSE StrLess(Tail(a), Tail(b))

\* sorted(names)
RECURSIVE Sorted(_)
Sorted(names) ==
  IF names = {} THEN <<>>
  ELSE LET m == CHOOSE x \in names : \A y \in names \ {x} : StrLess(x, y)
       IN  <<m>> \o Sorted(names \ {m})

\* The arcnames of the entries written: the asyncio variant zips
\* sorted(out_dir.iterdir()), the sequential variant zips the saved list.
ZipEntries(fs, sv) ==
  IF variant = "ail" THEN Sorted({ f.name : f \in fs }) ELSE sv

\* A batch that is taken to be over as soon as one download has resolved
\* (asyncio.wait with FIRST_COMPLETED in place of gather).
BatchOver_first == \E c \in Tasks : tasks[c].pc = "done"

\* Every download has resolved: asyncio.gather needs every coroutine to
\* have returned; the for loop of download_images is over when the list is
\* exhausted or `len(saved) >= max_images` breaks it.
BatchOver ==
  /\ \A c \in Tasks : tasks[c].pc \in {"idle", "done"}
  /\ IF variant = "ail"
     THEN \A c \in Tasks : tasks[c].pc = "done"
     ELSE (\A c \in Tasks : tasks[c].pc = "done") \/ Len(saved) >= MAX_IMAGES

\* What follows the batch without suspension: the survivors are collected;
\* without any, None is returned (the message skipped); otherwise the
\* ZipFile block writes every entry and the path is returned, or an OSError
\* leaves scrape_images / main. The candidate list, the coroutines and the
\* dedup set are locals of the code that ends here; the collected list is
\* kept for reference until the message is done.
BatchEnd ==
  /\ pc = "batch"
  /\ BatchOver
  /\ saved' = IF variant = "ail"
              THEN NonNone([c \in Tasks |-> tasks[c].out])
              ELSE saved
  /\ \E zipOk \in IF saved' = <<>> THEN {TRUE} ELSE BOOLEAN :
       IF saved' = <<>>
       THEN /\ result' = "None"
            /\ pc' = "done"
            /\ UNCHANGED << archive, tmp, files >>
       ELSE IF zipOk
       THEN /\ archive' = ZipEntries(files, saved')
            /\ result' = "zip"
            /\ pc' = "send"
            /\ tmp' = InsideWith(tmp)
            /\ UNCHANGED files
       ELSE /\ Raise
            /\ UNCHANGED archive
  /\ img_urls' = <<>>
  /\ tasks' = <<>>
  /\ seen' = {}
  /\ UNCHANGED << variant, msgIdx, marked, page, delivered >>
  /\ gateLog' = NoGate

\* The archive is handed to send_via_resend / send_reply_with_zip, which
\* reads the zip and sends it (a failure to send is caught and reported as
\* False); then the with block is left, the message is marked seen and the
\* loop goes on to the next message.
Deliver ==
  /\ pc = "send"
  /\ \E ok \in BOOLEAN : delivered' = [delivered EXCEPT ![msgIdx] = ok]
  /\ tmp' = WithExit(tmp)
  /\ marked' = [marked EXCEPT ![msgIdx] = @ + 1]
  /\ msgIdx' = msgIdx + 1
  /\ pc' = "next"
  /\ ResetSession
  /\ UNCHANGED variant

\* A loop body that ends without an archive: the with block (if entered)
\* is left and the message is marked seen; the loop goes on.
EndMessage ==
  /\ pc = "done"
  /\ tmp' = WithExit(tmp)
  /\ marked' = [marked EXCEPT ![msgIdx] = @ + 1]
  /\ msgIdx' = msgIdx + 1
  /\ pc' = "next"
  /\ ResetSession
  /\ UNCHANGED << variant, delivered >>

Next ==
  \/ NextMessage
  \/ Logout
  \/ ScrapeStart
  \/ FetchPage
  \/ Extract
  \/ \E c \in Tasks : DownloadBegin(c)
  \/ \E c \in Tasks : DownloadConnect(c)
  \/ \E c \in Tasks : DownloadStatus(c)
  \/ \E c \in Tasks : DownloadBody(c)
  \/ \E c \in Tasks : DownloadIteration(c)
  \/ BatchEnd
  \/ Deliver
  \/ EndMessage

Spec == Init /\ [][Next]_vars

TypeOK ==
  /\ variant \in {"ail", "mail"}
  /\ pc \in {"next", "gate", "page", "extract", "batch", "send",
             "done", "crashed", "exit"}
  /\ result \in {"pending", "None", "zip", "raised"}
  /\ tmp \in BOOLEAN
  /\ Len(tasks) <= MaxCands
  /\ \A c \in Tasks : tasks[c].pc \in {"idle", "wait", "get", "read", "done"}

\* ================================================================ claims
\* Every download of the batch has resolved (the state gather / the for
\* loop hands over to the code that collects the survivors).
BatchResolved == pc = "batch" /\ BatchOver

\* Download c was started: its coroutine ran / its loop iteration ran.
Attempted(c) == tasks[c].pc # "idle"

\* A network request for the URL of download c was issued.
Issued(c) == tasks[c].pc \in {"get", "read"} \/ tasks[c].status # "none"

\* Download c fetched a body (status 200, body read) at or above the floor.
FetchedAboveFloor(c) ==
  /\ tasks[c].status = "200"
  /\ tasks[c].body # NoBody
  /\ tasks[c].body.len >= MIN_BYTES

\* Download c returned a SavedAsset.
Saved(c) == tasks[c].out # None

Min(a, b) == IF a < b THEN a ELSE b

\* C1: when the batch has resolved, any two distinct candidates whose
\* fetched bodies are byte-identical and at or above the size floor have
\* produced exactly one SavedAsset between all the downloads of that body.
C1_DedupExactlyOne ==
  BatchResolved =>
    \A c, d \in Tasks :
      (c # d /\ FetchedAboveFloor(c) /\ FetchedAboveFloor(d)
             /\ tasks[c].body = tasks[d].body)
      => Cardinality({ e \in Tasks : tasks[e].body = tasks[c].body /\ Saved(e) }) = 1

\* The half of C1 that the code keeps: no two downloads of one body both
\* pass the `h in seen` check and write a file.
C1_AtMostOneWriter ==
  \A c, d \in Tasks :
    (c # d /\ tasks[c].body # NoBody /\ tasks[c].body = tasks[d].body)
    => ~(tasks[c].why \in {"saved", "write"} /\ tasks[d].why \in {"saved", "write"})

\* C2: when the batch has resolved, every candidate whose fetch succeeded
\* at or above the size floor, and whose own write did not fail, was saved
\* or is a duplicate of a saved asset, whatever happened to the others.
C2_PartialFailureIsolation ==
  BatchResolved =>
    \A c \in Tasks :
      (FetchedAboveFloor(c) /\ tasks[c].why # "write")
      => \/ Saved(c)
         \/ \E d \in Tasks : d # c /\ tasks[d].body = tasks[c].body /\ Saved(d)

\* C3: a harvest that returns an archive returns one with as many entries
\* as SavedAssets were collected, the entries being the saved assets.
C3_ArchiveCompleteness ==
  pc = "send" =>
    /\ Len(archive) = Len(saved)
    /\ { archive[i] : i \in DOMAIN archive } = { saved[i] : i \in DOMAIN saved }

\* C4: robots_allow returns False only when a declaration that was
\* retrieved and parsed disallows the URL; on every failure to retrieve or
\* parse it, it returns True.
C4_GateFailsOpen ==
  gateLog.outcome # "none" =>
    (gateLog.verdict = FALSE <=> gateLog.outcome = "disallow")

\* C5: no request for the page URL or for a candidate URL is issued unless
\* the policy gate was evaluated for that URL before and returned allow.
C5_GateBeforeFetch ==
  /\ page.fetch # "none" => page.gate = "allow"
  /\ \A c \in Tasks : Issued(c) => tasks[c].gate = "allow"

\* C6: when the batch has resolved, the number of candidates for which a
\* download was attempted is min(number of extracted candidates,
\* MAX_IMAGES).
C6_DispatchCount ==
  BatchResolved =>
    Cardinality({ c \in Tasks : Attempted(c) }) = Min(Len(img_urls), MAX_IMAGES)

\* C7: a fetch with status 200 whose body is shorter than MIN_BYTES is
\* rejected by the floor and by nothing else: it returns no path, its
\* digest never enters the dedup set, no file holds its bytes (so no archive
\* entry can, the entries being files of the directory); and the floor
\* rejects no body of MIN_BYTES bytes or more.
C7_SizeFloor ==
  /\ \A c \in Tasks :
       /\ tasks[c].why = "small" <=>
            (tasks[c].body # NoBody /\ tasks[c].body.len < MIN_BYTES)
       /\ tasks[c].why = "small" => tasks[c].status = "200" /\ ~Saved(c)
  /\ \A b \in Bodies :
       b.len < MIN_BYTES =>
         /\ Sha1Hex(b) \notin seen
         /\ \A f \in files : f.data.id # b.id
  /\ pc = "send" => \A i \in DOMAIN archive : \E f \in files : f.name = archive[i]

\* C7 witness: one download was rejected by the floor and another, whose
\* body has exactly MIN_BYTES bytes, was saved.
C7_Witness ==
  \E c, d \in Tasks :
    /\ tasks[c].why = "small" /\ tasks[c].body.len = MIN_BYTES - 1
    /\ tasks[d].why = "saved" /\ tasks[d].body.len = MIN_BYTES

\* The harvest of the current page URL is over: an archive was returned, or
\* None was, or an exception left it.
HarvestOver == pc \in {"send", "done", "crashed"}

\* One of the cases in which the absence value is due.
AbsenceDue ==
  \/ page.gate = "deny"
  \/ page.fetch \in {"failed", "empty"}
  \/ saved = <<>>

\* C8: a harvest that is over returned None exactly when the gate blocked
\* the page, the page fetch failed or no candidate survived, and an archive
\* in every other case.
C8_AbsenceExactly ==
  HarvestOver =>
    /\ result = "None" <=> AbsenceDue
    /\ ~AbsenceDue => result = "zip"

\* C9: no exception leaves the harvest.
C9_NeverRaises == result # "raised"

\* C10: once the processing of a page URL is over (the loop is at its head
\* again, main has returned, or an exception ended it) the temporary
\* directory and the files below it are gone.
C10_NoWorkdirSurvives ==
  pc \in {"next", "exit", "crashed"} => (~tmp /\ files = {})

\* C10 witness: the first message's archive was delivered and the loop is
\* back at its head.
C10_Witness == pc = "next" /\ msgIdx = 2 /\ delivered[1] /\ ~tmp

\* C11: the downloads that hold a connection (their request was sent and
\* they have not resolved) are at most ConnLimit, whatever the number of
\* candidates, and at most LimitPerHost of them go to any one host.
C11_BoundedInFlight ==
  /\ Cardinality({ c \in Tasks : Connected(tasks[c]) }) <= ConnLimit
  /\ \A u \in Urls :
       Cardinality({ c \in Tasks : Connected(tasks[c])
                                   /\ tasks[c].url.host = u.host }) <= LimitPerHost

\* C11 witness: of two downloads to the same host one holds the connection
\* and the other waits for it.
C11_Witness ==
  \E c, d \in Tasks :
    /\ tasks[c].url.host = tasks[d].url.host
    /\ Connected(tasks[c])
    /\ tasks[d].pc = "wait"

\* A download that was dispatched: every coroutine handed to gather; every
\* iteration of the for loop that was entered.
Dispatched(c) == variant = "ail" \/ Attempted(c)

\* C12: a step that writes archive entries starts from a state in which
\* every dispatched download has resolved, and from the moment the archive
\* holds an entry no step adds or changes a file of the working directory
\* (the only change left is its removal).
C12_PackagingAfterDownloads ==
  [][ /\ (archive' # archive /\ archive' # <<>>) =>
           \A c \in Tasks : Dispatched(c) => tasks[c].pc = "done"
      /\ archive # <<>> => (files' = files \/ files' = {}) ]_vars

\* C12 witness: an archive was built after two downloads had saved a file.
C12_Witness == pc = "send" /\ Len(archive) = 2 /\ Len(saved) = 2

\* The elements of a list.
Range(l) == { l[i] : i \in DOMAIN l }

\* C13: the candidates a harvest dispatches are a function of the page:
\* every list that list(set) can give for the same set of references (in
\* another process, under another hash seed) truncates to the same subset
\* as the one that was dispatched.
C13_StableDispatch ==
  (pc = "batch" /\ variant = "ail") =>
    \A l \in ListsOfSet(Urls, MaxCands) :
      Range(l) = Range(img_urls) =>
        Range(Truncate(l)) = { tasks[c].url : c \in Tasks }

\* C14: the entries of an archive are in lexicographic order of their
\* names (so the sequence is a function of the set of names, whatever the
\* order in which the downloads completed), and every entry is a bare file
\* name, without a directory separator.
C14_ArchiveOrder ==
  pc = "send" =>
    /\ archive = Sorted(Range(archive))
    /\ \A i \in DOMAIN archive :
         \A k \in DOMAIN archive[i] : archive[i][k] \in SafeChars

\* The part of C14 that holds: the asyncio variant's archive is sorted.
C14_SortedListing == variant = "ail" => C14_ArchiveOrder

\* C15: two downloads that saved different bytes got different paths, and
\* the file of every saved asset still holds the bytes of that asset.
C15_UniqueNames ==
  /\ \A c, d \in Tasks :
       (c # d /\ Saved(c) /\ Saved(d) /\ tasks[c].body # tasks[d].body)
       => tasks[c].out # tasks[d].out
  /\ \A c \in Tasks :
       Saved(c) => \E f \in files : f.name = tasks[c].out /\ f.data = tasks[c].body

\* C16: a harvest sends at most one request for the page, and exactly one
\* once the page fetch has started; the harvest goes on to the extraction
\* only with the text of a response of status 200; after an error, a
\* timeout, another status (or an empty text) it has ended with None.
C16_SingleRetrieval ==
  /\ page.requests <= 1
  /\ page.fetch # "none" => page.requests = 1
  /\ pc \in {"extract", "batch", "send"} => page.fetch = "ok"
  /\ page.fetch \in {"failed", "empty"} => (pc = "done" /\ result = "None")

\* C16 witness: the one request for the page failed and the harvest is
\* over without an archive.
C16_Witness ==
  page.fetch = "failed" /\ page.requests = 1 /\ pc = "done" /\ result = "None"

\* C17: while the downloads of a session run, every digest of the dedup
\* set belongs to exactly one download that returned a path and to exactly
\* one file that holds the whole body, and every file of the working
\* directory holds the whole body of a digest of the set.
C17_SeenMatchesFiles ==
  pc = "batch" =>
    /\ \A h \in seen :
         /\ Cardinality({ c \in Tasks :
                            Saved(c) /\ Sha1Hex(tasks[c].body) = h }) = 1
         /\ Cardinality({ f \in files :
                            f.data \in Bodies /\ Sha1Hex(f.data) = h }) = 1
    /\ \A f \in files : f.data \in Bodies /\ Sha1Hex(f.data) \in seen

\* C18: a step that delivers a reply with the archive starts from a state
\* in which the archive has been written and closed (the harvest returned
\* it) and the temporary directory that holds it still exists.
C18_DeliveryWhileArchiveExists ==
  [][ (\E m \in DOMAIN delivered : ~delivered[m] /\ delivered'[m]) =>
        (pc = "send" /\ result = "zip" /\ archive # <<>> /\ tmp) ]_vars

\* C18 witness: the archives of two messages were delivered.
C18_Witness == delivered[1] /\ delivered[2] /\ ~tmp

\* The part of C19 that holds: a message the loop has gone past was marked
\* seen once, the others not yet.
C19_MarksInOrder ==
  \A m \in DOMAIN marked : marked[m] = IF m < msgIdx THEN 1 ELSE 0

\* C19: every message the loop has gone past was marked seen exactly once
\* and no other was; and the loop is never left in the middle of a
\* message, which would leave that message unmarked and the following ones
\* unprocessed.
C19_EveryMessageMarked ==
  /\ C19_MarksInOrder
  /\ pc # "crashed"

====
